---- MODULE Spec2Model ----
(***************************************************************************)
(* Model of the authentication handlers of shopery-server                  *)
(* (src/src/controllers/auth.controller.ts): register, login,              *)
(* forgotPassword and changePassword, each an async handler that suspends  *)
(* at every awaited persistence or network call.  Requests interleave at   *)
(* those suspension points; the User and Token collections are the shared  *)
(* state.                                                                   *)
(*                                                                          *)
(* Strings (emails, passwords) are tuples of one-character strings so that *)
(* toLowerCase and the password policy are computed character by           *)
(* character.  The empty tuple stands for an absent or empty (falsy)       *)
(* value.  A signed token is <<r>>, r the request it was issued for (a     *)
(* request issues at most one token, and no two tokens are equal); <<>> is *)
(* the empty token.  A request arrives with the step that completes its    *)
(* first awaited call; what the handler does before that touches nothing   *)
(* shared.                                                                  *)
(***************************************************************************)
EXTENDS Integers, Sequences, FiniteSets, TLC

\* ---------------------------------------------------------------- bounds
MaxReqs == 3
MaxInFlight == 2

Reqs == 1..MaxReqs

\* ------------------------------------------------------------ characters
UpperCase == <<"A", "B", "X">>
LowerCase == <<"a", "b", "x">>
Digits == {"1", "2"}
Specials == {"!"}

Absent == <<>>
NoId == 0

LowerChar(c) ==
  IF \E i \in 1..Len(UpperCase) : UpperCase[i] = c
  THEN LowerCase[CHOOSE i \in 1..Len(UpperCase) : UpperCase[i] = c]
  ELSE c

toLowerCase(s) == [i \in 1..Len(s) |-> LowerChar(s[i])]

\* --------------------------------------------------------------- inputs
EmailA == <<"a", "@", "x">>
EmailB == <<"b", "@", "x">>
EmailBUpper == <<"B", "@", "x">>
EmailBad == <<"a", "x">>

PwGood1 == <<"A", "b", "c", "d", "e", "f", "g", "1", "!">>
PwGood2 == <<"X", "b", "c", "d", "e", "f", "g", "2", "!">>
PwNoDigit == <<"A", "b", "c", "d", "e", "f", "g", "h", "!">>
PwShort == <<"A", "b", "c", "d", "e", "1", "!">>

Name == <<"n">>

Body(email, password, firstName, lastName, oldPassword, newPassword, userId) ==
  [email |-> email, password |-> password, firstName |-> firstName,
   lastName |-> lastName, oldPassword |-> oldPassword,
   newPassword |-> newPassword, userId |-> userId]

NoBody == Body(Absent, Absent, Absent, Absent, Absent, Absent, NoId)

RegisterBodies ==
  { Body(EmailB, PwGood1, Name, Name, Absent, Absent, NoId),
    Body(EmailBUpper, PwGood1, Name, Name, Absent, Absent, NoId),
    Body(EmailBad, PwGood1, Name, Name, Absent, Absent, NoId),
    Body(EmailB, Absent, Name, Name, Absent, Absent, NoId) }

LoginBodies ==
  { Body(EmailA, PwGood1, Absent, Absent, Absent, Absent, NoId),
    Body(EmailA, PwGood2, Absent, Absent, Absent, Absent, NoId),
    Body(Absent, PwGood1, Absent, Absent, Absent, Absent, NoId),
    Body(EmailA, Absent, Absent, Absent, Absent, Absent, NoId) }

ForgotBodies ==
  { Body(EmailA, Absent, Absent, Absent, Absent, Absent, NoId),
    Body(EmailB, Absent, Absent, Absent, Absent, Absent, NoId),
    Body(EmailBad, Absent, Absent, Absent, Absent, Absent, NoId) }

\* req.user.id is set by the upstream auth middleware: 1 is the seeded
\* user, 9 an id no user has.
ChangeBodies ==
  { Body(Absent, Absent, Absent, Absent, PwGood1, PwGood2, 1),
    Body(Absent, Absent, Absent, Absent, PwGood2, PwGood1, 1),
    Body(Absent, Absent, Absent, Absent, PwGood1, PwNoDigit, 1),
    Body(Absent, Absent, Absent, Absent, PwGood2, PwNoDigit, 1),
    Body(Absent, Absent, Absent, Absent, PwGood1, PwShort, 1),
    Body(Absent, Absent, Absent, Absent, PwGood1, PwGood2, 9) }

\* Outcomes the Notification Service can report.
EmailResults ==
  { [error |-> FALSE, code |-> 200, message |-> "sent"],
    [error |-> TRUE, code |-> 500, message |-> "smtp failure"],
    [error |-> TRUE, code |-> 502, message |-> "relay refused"] }

\* ------------------------------------------------------ collaborators
\* One-way hash applied by the persistence layer when a user is saved.
Hash(p) == <<"hash", p>>

matchPassword(u, p) == u.password = Hash(p)

\* emailService.validateEmail: local part, "@", domain.
validateEmail(e) ==
  \E i \in 2..(Len(e) - 1) : e[i] = "@"

\* userService.checkPassword: more than 8 characters, one uppercase letter,
\* one digit, one special character.
checkPassword(p) ==
  /\ Len(p) > 8
  /\ \E i \in 1..Len(p) : \E j \in 1..Len(UpperCase) : p[i] = UpperCase[j]
  /\ \E i \in 1..Len(p) : p[i] \in Digits
  /\ \E i \in 1..Len(p) : p[i] \in Specials

Resp(code, msg) == [code |-> code, msg |-> msg]

NoResp == Resp(0, "")

\* What the centralized error handler renders for a rejected persistence call.
Thrown == Resp(500, "thrown")

\* AuthService.validateRegister: required fields present, email well formed.
validateRegister(b) ==
  IF b.email = Absent \/ b.password = Absent
     \/ b.firstName = Absent \/ b.lastName = Absent
  THEN [error |-> TRUE, code |-> 400, message |-> "missing fields"]
  ELSE IF ~validateEmail(b.email)
  THEN [error |-> TRUE, code |-> 400, message |-> "invalid email"]
  ELSE [error |-> FALSE, code |-> 200, message |-> ""]

\* -------------------------------------------------------------- state
VARIABLES users, nextUserId, tokens, mails, req

vars == <<users, nextUserId, tokens, mails, req>>

\* The store holds one registered user when the requests start.
SeedUser == [id |-> 1, email |-> EmailA, password |-> Hash(PwGood1)]

IdleReq ==
  [kind |-> "none", pc |-> "idle", body |-> NoBody, email |-> Absent,
   validate |-> [id |-> NoId, token |-> <<>>], authToken |-> 0,
   user |-> NoId, docPassword |-> <<>>, resetToken |-> <<>>,
   emailResult |-> [error |-> FALSE, code |-> 0, message |-> ""],
   resp |-> NoResp,
   touched |-> FALSE, wrote |-> FALSE, made |-> 0, after |-> {}]

Init ==
  /\ users = {SeedUser}
  /\ nextUserId = 2
  /\ tokens = <<>>
  /\ mails = {}
  /\ req = [r \in Reqs |-> IdleReq]

Done(r) == req[r].pc = "done"

InFlight == {r \in Reqs : req[r].pc \notin {"idle", "done"}}

\* A request arrives in the lowest unused slot.
CanArrive(r) ==
  /\ req[r].pc = "idle"
  /\ \A q \in Reqs : q < r => req[q].pc # "idle"
  /\ Cardinality(InFlight) < MaxInFlight

Arrived(r, kind, body) ==
  [IdleReq EXCEPT !.kind = kind, !.body = body,
                  !.after = {q \in Reqs : Done(q)}]

Finish(rec, resp) == [rec EXCEPT !.pc = "done", !.resp = resp]

\* ------------------------------------------------------------ register
\* const { email, ... } = req.body; req.body.email is lower-cased, the
\* destructured email is not; then await AuthService.validateRegister.
RegisterBegin(r) ==
  /\ CanArrive(r)
  /\ \E b \in RegisterBodies :
       LET a == [Arrived(r, "register", b) EXCEPT
                   !.email = b.email,
                   !.body.email = IF b.email # Absent THEN toLowerCase(b.email)
                                  ELSE b.email]
           v == validateRegister(a.body) IN
       req' = [req EXCEPT ![r] =
                 IF v.error THEN Finish(a, Resp(v.code, v.message))
                 ELSE [a EXCEPT !.pc = "findUser"]]
  /\ UNCHANGED <<users, nextUserId, tokens, mails>>

\* A lookup whose filter is dropped: any stored user matches.
UserByEmail_AnyUser(e) == users

\* User.findOne({ email }): exact match on the stored email.
UserByEmail(e) == {u \in users : u.email = e}

RegisterFindUser(r) ==
  /\ req[r].kind = "register" /\ req[r].pc = "findUser"
  /\ req' = [req EXCEPT ![r] =
               IF UserByEmail(req[r].email) # {}
               THEN Finish([@ EXCEPT !.touched = TRUE],
                           Resp(403, "User already exists, use another email"))
               ELSE [@ EXCEPT !.touched = TRUE, !.pc = "createUser"]]
  /\ UNCHANGED <<users, nextUserId, tokens, mails>>

\* userService.createUser over the User schema: the stored email is
\* lower-cased and unique, the password is hashed on save.
NewUser(id, email, password) ==
  [id |-> id, email |-> toLowerCase(email), password |-> Hash(password)]

\* The store rejects a write whose lower-cased email is already there.
DuplicateEmail(email) == \E u \in users : u.email = toLowerCase(email)

\* userService.createUser({ ..., email: email, password: password, ... })
\* with the email as destructured from the request, then the 200 response.
RegisterCreateUser(r) ==
  /\ req[r].kind = "register" /\ req[r].pc = "createUser"
  /\ IF DuplicateEmail(req[r].email)
     THEN /\ req' = [req EXCEPT ![r] = Finish(@, Thrown)]
          /\ UNCHANGED <<users, nextUserId>>
     ELSE /\ users' = users \cup
               {NewUser(nextUserId, req[r].email, req[r].body.password)}
          /\ nextUserId' = nextUserId + 1
          /\ req' = [req EXCEPT ![r] =
                       Finish([@ EXCEPT !.wrote = TRUE, !.user = nextUserId],
                              Resp(200, "User registered successfully."))]
  /\ UNCHANGED <<tokens, mails>>

\* --------------------------------------------------------------- login
\* A guard that forgets the password.
LoginFieldsMissing_EmailOnly(b) == b.email = Absent

\* The request guard of login: both fields must be present.
LoginFieldsMissing(b) == b.email = Absent \/ b.password = Absent

\* A token for request r: the service issues one, or fails to and returns
\* the empty token.
IssuedTokens(r) == {<<r>>, <<>>}

\* AuthService.validateLogin: the users matching the email and password.
validateLoginUsers(b) ==
  {u \in UserByEmail(b.email) : matchPassword(u, b.password)}

\* The guard, req.body.email lower-cased, then await
\* AuthService.validateLogin(req.body) and its error branch.
LoginBegin(r) ==
  /\ CanArrive(r)
  /\ \E b \in LoginBodies :
       LET a == Arrived(r, "login", b)
           lc == [a EXCEPT !.body.email = toLowerCase(b.email),
                           !.touched = TRUE] IN
       IF LoginFieldsMissing(b)
       THEN req' = [req EXCEPT ![r] =
                      Finish(a, Resp(400, "Email and password are required"))]
       ELSE IF validateLoginUsers(lc.body) = {}
       THEN req' = [req EXCEPT ![r] =
                      Finish(lc, Resp(400, "Invalid credentials"))]
       ELSE \E u \in validateLoginUsers(lc.body) : \E t \in IssuedTokens(r) :
              req' = [req EXCEPT ![r] =
                        [lc EXCEPT !.validate = [id |-> u.id, token |-> t],
                                   !.pc = "findToken"]]
  /\ UNCHANGED <<users, nextUserId, tokens, mails>>

\* Token.findOne({ userId: id }): the first document whose userId field
\* equals id, 0 when there is none.
TokenFindOne(id) ==
  IF \E i \in 1..Len(tokens) : tokens[i].userId = id
  THEN CHOOSE i \in 1..Len(tokens) :
         /\ tokens[i].userId = id
         /\ \A j \in 1..(i - 1) : tokens[j].userId # id
  ELSE 0

\* The document login creates: { token, user, expiresAt }.
LoginTokenDoc(id, token) ==
  [user |-> id, userId |-> NoId, token |-> token, expiresAt |-> "now+3600s"]

\* The branch login takes after the lookup.
LoginAfterFind(found, token) ==
  IF found # 0 THEN "saveToken"
  ELSE IF token = <<>> THEN "fail500"
  ELSE "createToken"

\* The record is created before the token is checked for emptiness.
LoginFindToken_CreateFirst(r) ==
  /\ req[r].kind = "login" /\ req[r].pc = "findToken"
  /\ LET found == TokenFindOne(req[r].validate.id) IN
       IF found # 0
       THEN /\ req' = [req EXCEPT ![r] =
                         [@ EXCEPT !.touched = TRUE, !.authToken = found,
                                   !.pc = "saveToken"]]
            /\ UNCHANGED tokens
       ELSE /\ tokens' = Append(tokens, LoginTokenDoc(req[r].validate.id,
                                                      req[r].validate.token))
            /\ req' = [req EXCEPT ![r] =
                         IF req[r].validate.token = <<>>
                         THEN Finish([@ EXCEPT !.touched = TRUE, !.wrote = TRUE,
                                               !.made = Len(tokens) + 1],
                                     Resp(500, "Token generation failed"))
                         ELSE [@ EXCEPT !.touched = TRUE, !.wrote = TRUE,
                                        !.made = Len(tokens) + 1,
                                        !.pc = "findUser"]]
  /\ UNCHANGED <<users, nextUserId, mails>>

LoginFindToken(r) ==
  /\ req[r].kind = "login" /\ req[r].pc = "findToken"
  /\ LET found == TokenFindOne(req[r].validate.id)
         branch == LoginAfterFind(found, req[r].validate.token) IN
       req' = [req EXCEPT ![r] =
                 IF branch = "fail500"
                 THEN Finish([@ EXCEPT !.touched = TRUE, !.authToken = found],
                             Resp(500, "Token generation failed"))
                 ELSE [@ EXCEPT !.touched = TRUE, !.authToken = found,
                                !.pc = branch]]
  /\ UNCHANGED <<users, nextUserId, tokens, mails>>

\* authToken.token = validate.data.token; await authToken.save()
LoginSaveToken(r) ==
  /\ req[r].kind = "login" /\ req[r].pc = "saveToken"
  /\ tokens' = [tokens EXCEPT ![req[r].authToken].token = req[r].validate.token]
  /\ req' = [req EXCEPT ![r] = [@ EXCEPT !.wrote = TRUE, !.pc = "findUser"]]
  /\ UNCHANGED <<users, nextUserId, mails>>

\* An atomic upsert keyed by the user field: a record of the user that is
\* already there is overwritten instead of a second one being added.
LoginCreateToken_Upsert(r) ==
  /\ req[r].kind = "login" /\ req[r].pc = "createToken"
  /\ LET mine == {i \in 1..Len(tokens) : tokens[i].user = req[r].validate.id} IN
       IF mine = {}
       THEN /\ tokens' = Append(tokens, LoginTokenDoc(req[r].validate.id,
                                                      req[r].validate.token))
            /\ req' = [req EXCEPT ![r] =
                         [@ EXCEPT !.wrote = TRUE, !.made = Len(tokens) + 1,
                                   !.pc = "findUser"]]
       ELSE \E i \in mine :
              /\ tokens' = [tokens EXCEPT ![i].token = req[r].validate.token]
              /\ req' = [req EXCEPT ![r] =
                           [@ EXCEPT !.wrote = TRUE, !.made = i,
                                     !.pc = "findUser"]]
  /\ UNCHANGED <<users, nextUserId, mails>>

LoginCreateToken(r) ==
  /\ req[r].kind = "login" /\ req[r].pc = "createToken"
  /\ tokens' = Append(tokens, LoginTokenDoc(req[r].validate.id,
                                            req[r].validate.token))
  /\ req' = [req EXCEPT ![r] =
               [@ EXCEPT !.wrote = TRUE, !.made = Len(tokens) + 1,
                         !.pc = "findUser"]]
  /\ UNCHANGED <<users, nextUserId, mails>>

\* User.findOne({ _id: id }), then the 200 response with the issued token.
LoginFindUser(r) ==
  /\ req[r].kind = "login" /\ req[r].pc = "findUser"
  /\ req' = [req EXCEPT ![r] =
               IF \E u \in users : u.id = req[r].validate.id
               THEN Finish(@, Resp(200, "User login successful"))
               ELSE Finish(@, Resp(404, "User not found"))]
  /\ UNCHANGED <<users, nextUserId, tokens, mails>>

\* ------------------------------------------------------ forgotPassword
\* validateEmail(email), await User.findOne({ email }) and, on a hit,
\* tokenService.generateToken({ userId, type }, secret, 900).
ForgotBegin(r) ==
  /\ CanArrive(r)
  /\ \E b \in ForgotBodies :
       LET a == [Arrived(r, "forgotPassword", b) EXCEPT !.email = b.email] IN
       IF ~validateEmail(b.email)
       THEN req' = [req EXCEPT ![r] =
                      Finish(a, Resp(400, "Invalid email format."))]
       ELSE IF UserByEmail(b.email) = {}
       THEN req' = [req EXCEPT ![r] =
                      Finish([a EXCEPT !.touched = TRUE],
                             Resp(404, "User with this email does not exist"))]
       ELSE \E u \in UserByEmail(b.email) :
              req' = [req EXCEPT ![r] =
                        [a EXCEPT !.touched = TRUE, !.user = u.id,
                                  !.resetToken = <<r>>,
                                  !.pc = "createToken"]]
  /\ UNCHANGED <<users, nextUserId, tokens, mails>>

\* The document forgotPassword creates: { userId, token }.
ForgotTokenDoc(id, token) ==
  [user |-> NoId, userId |-> id, token |-> token, expiresAt |-> "none"]

\* The handler moves on to the email without the record being stored.
ForgotCreateToken_NotPersisted(r) ==
  /\ req[r].kind = "forgotPassword" /\ req[r].pc = "createToken"
  /\ req' = [req EXCEPT ![r] = [@ EXCEPT !.pc = "sendEmail"]]
  /\ UNCHANGED <<users, nextUserId, tokens, mails>>

ForgotCreateToken(r) ==
  /\ req[r].kind = "forgotPassword" /\ req[r].pc = "createToken"
  /\ tokens' = Append(tokens, ForgotTokenDoc(req[r].user, req[r].resetToken))
  /\ req' = [req EXCEPT ![r] =
               [@ EXCEPT !.wrote = TRUE, !.made = Len(tokens) + 1,
                         !.pc = "sendEmail"]]
  /\ UNCHANGED <<users, nextUserId, mails>>

\* The response forgotPassword gives for the Notification Service's result.
ForgotEmailResp(res) ==
  IF res.error THEN Resp(res.code, res.message)
  ELSE Resp(200, "Forgot Password link sent to your email")

\* emailService.sendPasswordForgotEmail(user.email, resetUrl)
ForgotSendEmail(r) ==
  /\ req[r].kind = "forgotPassword" /\ req[r].pc = "sendEmail"
  /\ \E res \in EmailResults :
       /\ mails' = IF res.error THEN mails
                   ELSE mails \cup {[to |-> req[r].email,
                                     token |-> req[r].resetToken,
                                     id |-> req[r].user, by |-> r]}
       /\ req' = [req EXCEPT ![r] =
                    Finish([@ EXCEPT !.emailResult = res],
                           ForgotEmailResp(res))]
  /\ UNCHANGED <<users, nextUserId, tokens>>

\* ------------------------------------------------------ changePassword
\* await User.findById(req.user.id): the handler keeps the loaded document.
ChangeBegin(r) ==
  /\ CanArrive(r)
  /\ \E b \in ChangeBodies :
       LET a == [Arrived(r, "changePassword", b) EXCEPT !.touched = TRUE]
           found == {u \in users : u.id = b.userId} IN
       IF found = {}
       THEN req' = [req EXCEPT ![r] = Finish(a, Resp(404, "User not found"))]
       ELSE \E u \in found :
              req' = [req EXCEPT ![r] =
                        [a EXCEPT !.user = u.id, !.docPassword = u.password,
                                  !.pc = "matchPassword"]]
  /\ UNCHANGED <<users, nextUserId, tokens, mails>>

\* The message of the policy failure.
PolicyMessage ==
  "password must contain, 1 uppercase letter, one special character, one number and must be greater than 8 characters"

\* The two checks in the opposite order.
ChangeChecks_PolicyFirst(docPassword, oldPassword, newPassword) ==
  IF ~checkPassword(newPassword)
  THEN Resp(400, PolicyMessage)
  ELSE IF docPassword # Hash(oldPassword)
  THEN Resp(400, "Old password is incorrect")
  ELSE NoResp

\* The checks between the load and the write, in the handler's order.
ChangeChecks(docPassword, oldPassword, newPassword) ==
  IF docPassword # Hash(oldPassword)
  THEN Resp(400, "Old password is incorrect")
  ELSE IF ~checkPassword(newPassword)
  THEN Resp(400, PolicyMessage)
  ELSE NoResp

ChangeMatchPassword(r) ==
  /\ req[r].kind = "changePassword" /\ req[r].pc = "matchPassword"
  /\ LET c == ChangeChecks(req[r].docPassword, req[r].body.oldPassword,
                           req[r].body.newPassword) IN
       req' = [req EXCEPT ![r] =
                 IF c # NoResp THEN Finish(@, c)
                 ELSE [@ EXCEPT !.pc = "save"]]
  /\ UNCHANGED <<users, nextUserId, tokens, mails>>

\* user.password = newPassword; await user.save().  The persistence layer
\* hashes on save and rejects the save of a document that no longer exists.
ChangeSave(r) ==
  /\ req[r].kind = "changePassword" /\ req[r].pc = "save"
  /\ IF \E u \in users : u.id = req[r].user
     THEN /\ users' = {IF u.id = req[r].user
                       THEN [u EXCEPT !.password = Hash(req[r].body.newPassword)]
                       ELSE u : u \in users}
          /\ req' = [req EXCEPT ![r] =
                       Finish([@ EXCEPT !.wrote = TRUE],
                              Resp(200, "Password changed successfully"))]
     ELSE /\ req' = [req EXCEPT ![r] = Finish(@, Thrown)]
          /\ UNCHANGED users
  /\ UNCHANGED <<nextUserId, tokens, mails>>

\* ---------------------------------------------------------- environment
\* A user record is removed from the store by something outside the
\* handlers (the case login answers with 404).
UserVanishes ==
  /\ \E u \in users : users' = users \ {u}
  /\ UNCHANGED <<nextUserId, tokens, mails, req>>

RegisterNext ==
  \E r \in Reqs :
    \/ RegisterBegin(r)
    \/ RegisterFindUser(r)
    \/ RegisterCreateUser(r)

LoginNext ==
  \E r \in Reqs :
    \/ LoginBegin(r)
    \/ LoginFindToken(r)
    \/ LoginSaveToken(r)
    \/ LoginCreateToken(r)
    \/ LoginFindUser(r)

ForgotNext ==
  \E r \in Reqs :
    \/ ForgotBegin(r)
    \/ ForgotCreateToken(r)
    \/ ForgotSendEmail(r)

ChangeNext ==
  \E r \in Reqs :
    \/ ChangeBegin(r)
    \/ ChangeMatchPassword(r)
    \/ ChangeSave(r)

\* login and forgotPassword requests over the Token collection
NextTokens == LoginNext \/ ForgotNext \/ UserVanishes

SpecTokens == Init /\ [][NextTokens]_vars

\* register requests over the User collection
NextRegister == RegisterNext

SpecRegister == Init /\ [][NextRegister]_vars

\* changePassword requests over the User collection
NextChange == ChangeNext \/ UserVanishes

SpecChange == Init /\ [][NextChange]_vars

\* all handlers together
Next == RegisterNext \/ LoginNext \/ ForgotNext \/ ChangeNext \/ UserVanishes

Spec == Init /\ [][Next]_vars
\* ============================================================== claims
Logins == {r \in Reqs : req[r].kind = "login"}
Forgots == {r \in Reqs : req[r].kind = "forgotPassword"}
Registers == {r \in Reqs : req[r].kind = "register"}
Changes == {r \in Reqs : req[r].kind = "changePassword"}

\* Token records that refer to user u in either owner field.
TokensOf(u) ==
  {i \in 1..Len(tokens) : tokens[i].user = u \/ tokens[i].userId = u}

Overlapped(r, q) == r \notin req[q].after /\ q \notin req[r].after

Arrivals == {r \in Reqs : req[r].pc # "idle"}

\* Every request so far is a finished, successful login of user u, each
\* arriving after the previous one finished.
ConsecutiveLogins(u) ==
  /\ Arrivals # {}
  /\ \A r \in Arrivals :
       /\ req[r].kind = "login" /\ Done(r) /\ req[r].resp.code = 200
       /\ req[r].validate.id = u
       /\ req[r].after = 1..(r - 1)

LastArrival == CHOOSE r \in Arrivals : \A q \in Arrivals : q <= r

\* C1: after N >= 1 consecutive successful logins of one user, starting
\* from a Token store without a record for that user, the store holds
\* exactly one Token record for the user and its value is the token issued
\* by the most recent login.
C1_OneTokenPerUser ==
  ConsecutiveLogins(1) =>
    /\ Cardinality(TokensOf(1)) = 1
    /\ \A i \in TokensOf(1) : tokens[i].token = req[LastArrival].validate.token

\* C2: of two valid register requests issued one after the other with
\* emails equal ignoring case, the first creates a User and the second
\* fails with 403 and creates no second User.
C2_SecondRegisterConflicts ==
  \A r1 \in Registers : \A r2 \in Registers :
    ( /\ Done(r1) /\ Done(r2) /\ r1 \in req[r2].after
      /\ toLowerCase(req[r1].email) = toLowerCase(req[r2].email)
      /\ ~validateRegister(req[r1].body).error
      /\ ~validateRegister(req[r2].body).error
      /\ req[r1].resp.code = 200
      /\ \E u \in users : u.id = req[r1].user )
    => (req[r2].resp.code = 403 /\ ~req[r2].wrote)

\* C3: a changePassword request that ends in 404 (user not found), 400 (old
\* password does not match) or 400 (new password rejected by the policy)
\* has not written the stored password; the three checks are made in that
\* order and the password is written only after all three pass.
C3_ChangePasswordErrorsWriteNothing ==
  \A r \in Changes :
    /\ req[r].wrote =>
         /\ req[r].user # NoId
         /\ req[r].docPassword = Hash(req[r].body.oldPassword)
         /\ checkPassword(req[r].body.newPassword)
    /\ Done(r) =>
         /\ req[r].resp.code \in {400, 404} => ~req[r].wrote
         /\ req[r].user = NoId <=> req[r].resp = Resp(404, "User not found")
         /\ ( /\ req[r].user # NoId
              /\ req[r].docPassword # Hash(req[r].body.oldPassword) )
            => req[r].resp = Resp(400, "Old password is incorrect")
         /\ ( /\ req[r].user # NoId
              /\ req[r].docPassword = Hash(req[r].body.oldPassword)
              /\ ~checkPassword(req[r].body.newPassword) )
            => req[r].resp = Resp(400, PolicyMessage)

\* A request with a wrong old password and a new password without a digit
\* was answered "Old password is incorrect" and wrote nothing, while the
\* stored password of the user is still the seeded one.
C3_Witness ==
  \E r \in Changes :
    /\ Done(r)
    /\ req[r].body.oldPassword = PwGood2
    /\ req[r].body.newPassword = PwNoDigit
    /\ req[r].resp = Resp(400, "Old password is incorrect")
    /\ ~req[r].wrote
    /\ \E u \in users : u.id = req[r].user /\ u.password = Hash(PwGood1)

\* C4: every login that passes credential validation with an empty token
\* ends with 500, whether or not a Token record already exists.
C4_EmptyTokenIs500 ==
  \A r \in Logins :
    (Done(r) /\ req[r].validate.id # NoId /\ req[r].validate.token = <<>>)
    => req[r].resp.code = 500

\* C5: a login request in which email or password is absent fails with 400
\* and performs no read or write on the User or Token store.
C5_MissingFieldsTouchNothing ==
  \A r \in Logins :
    (req[r].body.email = Absent \/ req[r].body.password = Absent)
    => /\ Done(r)
       /\ req[r].resp = Resp(400, "Email and password are required")
       /\ ~req[r].touched
       /\ ~req[r].wrote

\* A login without a password was refused while another login of the same
\* run has gone through the stores.
C5_Witness ==
  \E r \in Logins : \E q \in Logins :
    /\ req[r].body.email # Absent /\ req[r].body.password = Absent
    /\ req[r].resp.code = 400 /\ ~req[r].touched
    /\ req[q].touched /\ req[q].wrote

\* C6: a forgot-password request whose well-formed email matches no User
\* ends with 404 in the step that looks the user up, and that step leaves
\* the Token store and the sent mails as they were; the request has
\* written nothing.
C6_ForgotUnknownEmail ==
  [][ \A r \in Reqs :
        ( /\ req[r].pc = "idle" /\ req'[r].kind = "forgotPassword"
          /\ \E i \in 2..(Len(req'[r].body.email) - 1) :
               req'[r].body.email[i] = "@"
          /\ {u \in users : u.email = req'[r].body.email} = {} )
        => /\ req'[r].pc = "done"
           /\ req'[r].resp.code = 404
           /\ ~req'[r].wrote /\ req'[r].made = 0
           /\ tokens' = tokens
           /\ mails' = mails ]_vars

\* A forgot-password request for the unregistered, well-formed address
\* b@x was answered 404 while the store already holds a reset record.
C6_Witness ==
  \E r \in Forgots :
    /\ Done(r) /\ req[r].email = EmailB /\ validateEmail(req[r].email)
    /\ req[r].resp.code = 404 /\ ~req[r].wrote
    /\ Len(tokens) > 0

\* C7: in a forgot-password request for an existing user the reset Token
\* record is in the store before the email is dispatched; when the
\* Notification Service reports failure the response carries exactly the
\* reported code and message, and the record stays in the store.
C7_ForgotPersistsThenMails ==
  /\ \A r \in Forgots :
       /\ (req[r].pc = "sendEmail" \/ req[r].emailResult.code # 0)
          => /\ req[r].made \in 1..Len(tokens)
             /\ tokens[req[r].made].userId = req[r].user
       /\ (Done(r) /\ req[r].emailResult.error)
          => req[r].resp = Resp(req[r].emailResult.code,
                                req[r].emailResult.message)
  /\ \A m \in mails : req[m.by].made \in 1..Len(tokens)

\* The Notification Service refused a reset mail with 502 and the record
\* the request created is still in the store.
C7_Witness ==
  \E r \in Forgots :
    /\ Done(r) /\ req[r].emailResult.error
    /\ req[r].resp = Resp(502, "relay refused")
    /\ req[r].made \in 1..Len(tokens)
    /\ tokens[req[r].made].userId = 1

\* C8: two logins of one user that interleave at their persistence calls
\* can both find no Token and both create one (two records for the user),
\* and can both overwrite the same record so that it holds the token of
\* only one of them while both answer 200.  As a safety statement: every
\* login that found no record and got past the create owns a record of its
\* own, distinct from that of any other login; every record logins have
\* saved to holds the token of one of them.
C8_LoginRace ==
  /\ \A r \in Logins :
       (req[r].authToken = 0 /\ req[r].pc \in {"findUser", "done"}
        /\ req[r].resp.code \in {0, 200, 404})
       => /\ req[r].made \in 1..Len(tokens)
          /\ tokens[req[r].made].user = req[r].validate.id
          /\ \A q \in Logins \ {r} : req[q].made # req[r].made
  /\ \A k \in 1..Len(tokens) :
       LET savers == {r \in Logins : req[r].authToken = k
                                     /\ req[r].pc \in {"findUser", "done"}} IN
       savers # {} =>
         /\ \E r \in savers : tokens[k].token = req[r].validate.token
         /\ \A r \in savers : \A q \in savers :
              (r # q /\ req[r].validate.token # <<>>)
              => req[r].validate.token # req[q].validate.token

\* Two overlapping logins of user 1 both found no Token, both created one
\* and both answered 200: the user has two Token records.
C8_Witness ==
  \E r \in Logins : \E q \in Logins :
    /\ r # q /\ Overlapped(r, q)
    /\ req[r].validate.id = 1 /\ req[q].validate.id = 1
    /\ req[r].authToken = 0 /\ req[q].authToken = 0
    /\ req[r].resp.code = 200 /\ req[q].resp.code = 200
    /\ Cardinality({i \in 1..Len(tokens) : tokens[i].user = 1}) = 2

\* Two overlapping logins of user 1 both found the same record, both saved
\* to it and both answered 200; the record holds the token of one of them
\* and not that of the other.
C8_LostUpdate ==
  \E r \in Logins : \E q \in Logins :
    /\ r # q /\ Overlapped(r, q)
    /\ req[r].authToken # 0 /\ req[q].authToken = req[r].authToken
    /\ req[r].resp.code = 200 /\ req[q].resp.code = 200
    /\ tokens[req[r].authToken].token = req[r].validate.token
    /\ tokens[req[r].authToken].token # req[q].validate.token

\* C9: login and reset tokens are kept in separate records: a record
\* created by forgot-password keeps its owner and its reset token whatever
\* logins and forgot-password requests follow.
C9_ResetRecordsUntouched ==
  \A r \in Forgots :
    req[r].made # 0 =>
      /\ req[r].made \in 1..Len(tokens)
      /\ tokens[req[r].made] = ForgotTokenDoc(req[r].user, req[r].resetToken)

\* C10 as stated: every login that ends in 400, 404 or 500 has left the
\* Token store unchanged.
C10_ErrorLoginsWriteNothing ==
  \A r \in Logins :
    (Done(r) /\ req[r].resp.code \in {400, 404, 500}) => ~req[r].wrote

\* C10 amended: every login that ends in 400 or 500 has written nothing to
\* the Token store; a login writes a Token record only if it goes on to
\* answer 200 or 404, and a login that answers 404 has always written one.
C10_OnlyEarlyErrorsWriteNothing ==
  \A r \in Logins :
    /\ (Done(r) /\ req[r].resp.code \in {400, 500}) => ~req[r].wrote
    /\ (Done(r) /\ req[r].wrote) => req[r].resp.code \in {200, 404}
    /\ (Done(r) /\ req[r].resp.code = 404) => req[r].wrote

\* One login was refused with 500 and wrote nothing; another created a
\* Token record and was then answered 404 because the user had vanished.
C10_Witness ==
  \E r \in Logins : \E q \in Logins :
    /\ Done(r) /\ req[r].resp.code = 500 /\ ~req[r].wrote
    /\ Done(q) /\ req[q].resp.code = 404 /\ req[q].wrote
    /\ req[q].made \in 1..Len(tokens)
====
